---- MODULE Spec2Model ----
(***************************************************************************)
(* A model of anniegraph.py: one run of the command-line tool, from the    *)
(* parsed options to the written plot.                                     *)
(*                                                                         *)
(* Python values are modelled as follows.                                  *)
(*   - a str is a sequence of one-character strings: <<"m","a","g">>;      *)
(*   - an optional value is a set: None is {}, a value v is {v};          *)
(*   - a list is a sequence; a dict is a sequence of <<key, value>> pairs  *)
(*     in insertion order, with distinct keys;                             *)
(*   - a number is an integer (the whole-valued floats).                   *)
(***************************************************************************)
EXTENDS Integers, Sequences, FiniteSets, TLC

None == {}
Some(v) == {v}
The(o) == CHOOSE v \in o : TRUE

\* Python truthiness of an optional str / list (None and the empty value are
\* false) and of an optional int (None and 0 are false).
TruthySeq(o) == o # None /\ The(o) # <<>>
TruthyInt(o) == o # None /\ The(o) # 0

(***************************************************************************)
(* str methods                                                             *)
(***************************************************************************)
IsSpace(c) == c = " "

RECURSIVE LStrip(_)
LStrip(s) == IF s # <<>> /\ IsSpace(Head(s)) THEN LStrip(Tail(s)) ELSE s

RECURSIVE RStrip(_)
RStrip(s) ==
    IF s # <<>> /\ IsSpace(s[Len(s)]) THEN RStrip(SubSeq(s, 1, Len(s) - 1)) ELSE s

\* str.strip()
Strip(s) == RStrip(LStrip(s))

\* str.split(sep) for a one-character separator: n separators give n+1 parts.
RECURSIVE Split(_, _)
Split(s, sep) ==
    IF \E k \in 1..Len(s) : s[k] = sep
    THEN LET k == CHOOSE k \in 1..Len(s) :
                      s[k] = sep /\ \A h \in 1..(k - 1) : s[h] # sep
         IN  <<SubSeq(s, 1, k - 1)>> \o Split(SubSeq(s, k + 1, Len(s)), sep)
    ELSE <<s>>

\* sep.join(xs)
RECURSIVE Join(_, _)
Join(sep, xs) ==
    IF xs = <<>> THEN <<>>
    ELSE IF Len(xs) = 1 THEN xs[1]
    ELSE xs[1] \o sep \o Join(sep, Tail(xs))

\* sub in s
Contains(s, sub) ==
    \E k \in 0..(Len(s) - Len(sub)) : SubSeq(s, k + 1, k + Len(sub)) = sub

\* s.endswith(suffix), s.startswith(prefix)
EndsWith(s, suffix) ==
    Len(suffix) <= Len(s) /\ SubSeq(s, Len(s) - Len(suffix) + 1, Len(s)) = suffix
StartsWith(s, prefix) == Len(prefix) <= Len(s) /\ SubSeq(s, 1, Len(prefix)) = prefix

\* [f(x) for x in xs]
StripAll(xs) == [k \in 1..Len(xs) |-> Strip(xs[k])]

(***************************************************************************)
(* dict, as a sequence of <<key, value>> pairs                             *)
(***************************************************************************)
DictHas(d, key) == \E k \in 1..Len(d) : d[k][1] = key

\* d.get(key, default)
DictGet(d, key, default) ==
    IF DictHas(d, key)
    THEN d[CHOOSE k \in 1..Len(d) : d[k][1] = key][2]
    ELSE default

\* d[key] = value: an existing key keeps its place
DictSet(d, key, value) ==
    IF DictHas(d, key)
    THEN [k \in 1..Len(d) |-> IF d[k][1] = key THEN <<key, value>> ELSE d[k]]
    ELSE Append(d, <<key, value>>)

(***************************************************************************)
(* The names the program fixes                                             *)
(***************************************************************************)
CometID == <<"C", "o", "m", "e", "t", " ", "I", "D">>
DeltaT == <<"d", "e", "l", "t", "a", " ", "T">>
DecDate == <<"d", "e", "c", ".", " ", "D", "a", "t", "e">>
SigUp == <<"s", "i", "g", "u", "p">>
SigDn == <<"s", "i", "g", "d", "n">>
TitleSep == <<" ", "/", " ">>
DefaultOutputFile == <<"o", "u", "t", "p", "u", "t", "_", "g", "r", "a", "p", "h", ".", "h", "t", "m", "l">>
DefaultDpi == 300
DefaultFontSize == 12

\* The outcome of a call: ok, or the exception it raised (calls: the drawing
\* calls made before it was raised).
Raise(kind) == [ok |-> FALSE, err |-> kind, calls |-> <<>>]

(***************************************************************************)
(* GraphConfig                                                             *)
(***************************************************************************)
\* A parser that skips the items that do not split in two instead of raising
RECURSIVE parse_items_skipping(_, _)
parse_items_skipping(items, column_names) ==
    IF items = <<>> THEN [ok |-> TRUE, err |-> "", dict |-> column_names]
    ELSE LET parts == Split(Head(items), "=")
         IN  IF Len(parts) # 2 THEN parse_items_skipping(Tail(items), column_names)
             ELSE parse_items_skipping(Tail(items),
                                       DictSet(column_names, Strip(parts[2]), Strip(parts[1])))

\* GraphConfig.parse_column_names: "Display Name=Column Name" items to a dict
\* column name -> display name. The tuple unpacking of item.split("=") raises
\* ValueError unless the split has exactly two parts.
RECURSIVE parse_items(_, _)
parse_items(items, column_names) ==
    IF items = <<>> THEN [ok |-> TRUE, err |-> "", dict |-> column_names]
    ELSE LET parts == Split(Head(items), "=")
         IN  IF Len(parts) # 2 THEN Raise("ValueError")
             ELSE parse_items(Tail(items),
                              DictSet(column_names, Strip(parts[2]), Strip(parts[1])))

parse_column_names(column_names_list) == parse_items(column_names_list, <<>>)

\* GraphConfig.validate_config: the first of x_axis, y_axes, output_file that is
\* None raises. y_axes is a list here (a null y_axes has raised TypeError in the
\* join before), and a list, empty or not, is not None.
validate_config(cfg) ==
    IF cfg.x_axis = None THEN Raise("ValueError")
    ELSE IF cfg.output_file = None THEN Raise("ValueError")
    ELSE [ok |-> TRUE, err |-> ""]

\* config.get(key, default) on the mapping yaml.safe_load returned
YamlGet(yaml, key, default) == IF key \in DOMAIN yaml THEN yaml[key] ELSE default

\* The check that ends GraphConfig.__init__ on both paths.
OutputFileCheck(cfg) ==
    IF ~TruthySeq(cfg.output_file) THEN Raise("ValueError")
    ELSE [ok |-> TRUE, err |-> "", cfg |-> cfg]

\* GraphConfig.__init__, import_config branch. The default of y_axis_title is
\* evaluated whether or not the key is present, so a null y_axes raises TypeError
\* in " / ".join.
GraphConfigFromYaml(yaml) ==
    LET y_axes == YamlGet(yaml, "y_axes", Some(<<>>))
        names == parse_column_names(YamlGet(yaml, "column_names", <<>>))
        x_axis == YamlGet(yaml, "x_axis", None)
    IN  IF ~names.ok THEN Raise(names.err)
        ELSE IF y_axes = None THEN Raise("TypeError")
        ELSE LET cfg == [
                    x_axis |-> x_axis,
                    y_axes |-> The(y_axes),
                    x_min |-> YamlGet(yaml, "x_min", None),
                    x_max |-> YamlGet(yaml, "x_max", None),
                    y_min |-> YamlGet(yaml, "y_min", None),
                    y_max |-> YamlGet(yaml, "y_max", None),
                    colors |-> YamlGet(yaml, "colors", <<>>),
                    shapes |-> YamlGet(yaml, "shapes", <<>>),
                    legend |-> YamlGet(yaml, "legend", FALSE),
                    dpi |-> YamlGet(yaml, "dpi", DefaultDpi),
                    font_size |-> YamlGet(yaml, "font_size", DefaultFontSize),
                    output_file |-> YamlGet(yaml, "output_file", Some(DefaultOutputFile)),
                    output_format |-> YamlGet(yaml, "output_format", <<"p", "n", "g">>),
                    interactive |-> YamlGet(yaml, "interactive", FALSE),
                    use_uncertainties |-> YamlGet(yaml, "use_uncertainties", FALSE),
                    delimiter |-> YamlGet(yaml, "delimiter", <<",">>),
                    column_names |-> names.dict,
                    x_axis_title |-> YamlGet(yaml, "x_axis_title", x_axis),
                    y_axis_title |-> YamlGet(yaml, "y_axis_title",
                                             Some(Join(TitleSep, The(y_axes)))),
                    style |-> YamlGet(yaml, "style", <<"c", "l", "a", "s", "s", "i", "c">>),
                    x_ticks |-> YamlGet(yaml, "x_ticks", None),
                    y_ticks |-> YamlGet(yaml, "y_ticks", None),
                    comet_ids |-> YamlGet(yaml, "comet_ids", None)]
                 valid == validate_config(cfg)
             IN  IF ~valid.ok THEN Raise(valid.err) ELSE OutputFileCheck(cfg)

\* GraphConfig.__init__, args branch (validate_config is not called here).
GraphConfigFromArgs(args) ==
    LET y_axes == IF TruthySeq(args.y_axes) THEN Split(The(args.y_axes), ",") ELSE <<>>
        names == IF TruthySeq(args.column_names)
                 THEN parse_column_names(The(args.column_names))
                 ELSE [ok |-> TRUE, err |-> "", dict |-> <<>>]
    IN  IF ~names.ok THEN Raise(names.err)
        ELSE OutputFileCheck([
            x_axis |-> args.x_axis,
            y_axes |-> y_axes,
            x_min |-> args.x_min,
            x_max |-> args.x_max,
            y_min |-> args.y_min,
            y_max |-> args.y_max,
            comet_ids |-> IF TruthySeq(args.comet_id)
                          THEN Some(Split(The(args.comet_id), ",")) ELSE None,
            colors |-> IF TruthySeq(args.colors) THEN Split(The(args.colors), ",") ELSE <<>>,
            shapes |-> IF TruthySeq(args.shapes) THEN Split(The(args.shapes), ",") ELSE <<>>,
            legend |-> args.legend,
            dpi |-> args.dpi,
            font_size |-> args.font_size,
            output_file |-> IF TruthySeq(args.output_file)
                            THEN args.output_file ELSE Some(DefaultOutputFile),
            output_format |-> args.output_format,
            interactive |-> args.interactive,
            use_uncertainties |-> args.use_uncertainties,
            delimiter |-> args.delimiter,
            column_names |-> names.dict,
            x_axis_title |-> IF TruthySeq(args.x_axis_title)
                             THEN args.x_axis_title ELSE args.x_axis,
            y_axis_title |-> IF TruthySeq(args.y_axis_title)
                             THEN args.y_axis_title ELSE Some(Join(TitleSep, y_axes)),
            style |-> IF args.style # <<>> THEN args.style
                      ELSE <<"p", "e", "t", "r", "o", "f", "f", "1", "0">>,
            x_ticks |-> args.x_ticks,
            y_ticks |-> args.y_ticks])

\* The keys export_to_yaml writes
ExportedKeys ==
    {"x_axis", "y_axes", "x_min", "x_max", "y_min", "y_max", "comet_ids",
     "colors", "shapes", "legend", "dpi", "font_size", "output_file",
     "output_format", "interactive", "use_uncertainties", "delimiter",
     "column_names", "x_axis_title", "y_axis_title", "style", "x_ticks",
     "y_ticks"}

\* An export that writes the rename entries the other way round, as
\* "column=display", which parse_column_names would read back inverted
export_to_yaml_swapped(cfg) ==
    [key \in ExportedKeys |->
        CASE key = "y_axes" -> Some(cfg.y_axes)
          [] key = "column_names" ->
                [k \in 1..Len(cfg.column_names) |->
                    cfg.column_names[k][1] \o <<"=">> \o cfg.column_names[k][2]]
          [] OTHER -> cfg[key]]

\* GraphConfig.export_to_yaml: the mapping handed to yaml.safe_dump. The rename
\* dict is written as a list of "display=column" strings.
export_to_yaml(cfg) ==
    [key \in ExportedKeys |->
        CASE key = "y_axes" -> Some(cfg.y_axes)
          [] key = "column_names" ->
                [k \in 1..Len(cfg.column_names) |->
                    cfg.column_names[k][2] \o <<"=">> \o cfg.column_names[k][1]]
          [] OTHER -> cfg[key]]

(***************************************************************************)
(* DataProcessor                                                           *)
(*                                                                         *)
(* A DataFrame is [cols, rows, index]: the column names, the rows (each    *)
(* aligned with cols) and the row labels (0-based, kept through filtering).*)
(* A cell of the input file is <<"num", n>>, <<"txt", 0>> (text that is no *)
(* number) or <<"nan", 0>> (an empty field); a cell of the identifier      *)
(* column is a str.                                                        *)
(***************************************************************************)
\* The increasing sequence of the members of a set of integers
Sorted(S) ==
    [k \in 1..Cardinality(S) |-> CHOOSE r \in S : Cardinality({q \in S : q < r}) = k - 1]

\* Position of the column called name, 0 when there is none
Col(data, name) ==
    IF \E k \in 1..Len(data.cols) : data.cols[k] = name
    THEN CHOOSE k \in 1..Len(data.cols) :
            data.cols[k] = name /\ \A h \in 1..(k - 1) : data.cols[h] # name
    ELSE 0

\* DataProcessor.has_column
has_column(data, column_name) == Col(data, column_name) # 0

\* [x for x in xs if x.endswith(suffix)]
SelectEndsWith(xs, suffix) ==
    LET keep == Sorted({k \in 1..Len(xs) : EndsWith(xs[k], suffix)})
    IN  [k \in 1..Len(keep) |-> xs[keep[k]]]

\* DataProcessor.get_uncertainties: the columns ending in "sigup" and in "sigdn"
get_uncertainties(data) ==
    [sigup_columns |-> SelectEndsWith(data.cols, SigUp),
     sigdown_columns |-> SelectEndsWith(data.cols, SigDn)]

\* pd.read_csv: a file split on its own delimiter gives its table; split on
\* another one, every line is a single text field.
read_csv(file, delimiter) ==
    IF delimiter = file.delimiter
    THEN [cols |-> file.cols, rows |-> file.rows,
          index |-> [r \in 1..Len(file.rows) |-> r - 1]]
    ELSE [cols |-> <<Join(file.delimiter, file.cols)>>,
          rows |-> [r \in 1..Len(file.rows) |-> << <<"txt", 0>> >>],
          index |-> [r \in 1..Len(file.rows) |-> r - 1]]

(***************************************************************************)
(* Dates. A number with a fractional part is [whole, frac], standing for   *)
(* whole + frac / FracDen: a float holds such a value exactly, so the      *)
(* arithmetic of parse_custom_date on it is exact. A datetime is           *)
(* [year, month, day, second, microsecond], second counted from midnight.  *)
(***************************************************************************)
FracDen == 256
SecondsPerDay == 86400

Digit == <<"0", "1", "2", "3", "4", "5", "6", "7", "8", "9">>
DigitValue(c) == (CHOOSE d \in 1..10 : Digit[d] = c) - 1

\* str(n) for n >= 0
RECURSIVE str_int(_)
str_int(n) == IF n < 10 THEN <<Digit[n + 1]>> ELSE str_int(n \div 10) \o <<Digit[(n % 10) + 1]>>

\* The number a str of digits writes
RECURSIVE DigitsValue(_)
DigitsValue(s) ==
    IF s = <<>> THEN 0 ELSE 10 * DigitsValue(SubSeq(s, 1, Len(s) - 1)) + DigitValue(s[Len(s)])

IsLeap(year) == (year % 4 = 0 /\ year % 100 # 0) \/ year % 400 = 0

DaysInMonth(year, month) ==
    IF month = 2 THEN (IF IsLeap(year) THEN 29 ELSE 28)
    ELSE IF month \in {4, 6, 9, 11} THEN 30 ELSE 31

\* The lengths, in the order the pattern tries them, of the text %m can take at
\* the head of s: 1[0-2] | 0[1-9] | [1-9]
MonthForms(s) ==
    (IF Len(s) >= 2 /\ \/ (s[1] = "1" /\ s[2] \in {"0", "1", "2"})
                       \/ (s[1] = "0" /\ s[2] # "0")
     THEN <<2>> ELSE <<>>)
    \o (IF Len(s) >= 1 /\ s[1] # "0" THEN <<1>> ELSE <<>>)

\* The same for %d: 3[01] | [12]\d | 0[1-9] | [1-9]
DayForms(s) ==
    (IF Len(s) >= 2 /\ \/ (s[1] = "3" /\ s[2] \in {"0", "1"})
                       \/ s[1] \in {"1", "2"}
                       \/ (s[1] = "0" /\ s[2] # "0")
     THEN <<2>> ELSE <<>>)
    \o (IF Len(s) >= 1 /\ s[1] # "0" THEN <<1>> ELSE <<>>)

\* datetime.strptime(date_str, "%Y%m%d") on a str of digits: four digits of
\* year, then the first month form after which a day form fits; text left over,
\* no fit, or a day the month does not have raise ValueError.
strptime(date_str) ==
    IF Len(date_str) < 4 THEN Raise("ValueError")
    ELSE LET rest == SubSeq(date_str, 5, Len(date_str))
             after(m) == SubSeq(rest, m + 1, Len(rest))
             forms == MonthForms(rest)
             fits == {k \in 1..Len(forms) : DayForms(after(forms[k])) # <<>>}
         IN  IF fits = {} THEN Raise("ValueError")
             ELSE LET m == forms[CHOOSE k \in fits : \A h \in fits : k <= h]
                      d == DayForms(after(m))[1]
                      year == DigitsValue(SubSeq(date_str, 1, 4))
                      month == DigitsValue(SubSeq(rest, 1, m))
                      day == DigitsValue(SubSeq(rest, m + 1, m + d))
                  IN  IF 4 + m + d # Len(date_str) THEN Raise("ValueError")
                      ELSE IF year < 1 \/ day > DaysInMonth(year, month)
                      THEN Raise("ValueError")
                      ELSE [ok |-> TRUE, err |-> "",
                            value |-> [year |-> year, month |-> month, day |-> day,
                                       second |-> 0, microsecond |-> 0]]

\* timedelta(seconds=frac * 86400), as whole seconds and microseconds (a
\* multiple of 1/FracDen of a day is a whole number of microseconds)
timedelta(frac) ==
    [seconds |-> (frac * SecondsPerDay) \div FracDen,
     microseconds |-> (((frac * SecondsPerDay) % FracDen) * 1000000) \div FracDen]

\* A decoder that keeps the whole seconds of the offset only
parse_custom_date_whole_seconds(date_float) ==
    LET date == strptime(str_int(date_float.whole))
    IN  IF ~date.ok THEN date
        ELSE [date EXCEPT !.value.second = (date_float.frac * SecondsPerDay) \div FracDen]

\* DataProcessor.parse_custom_date: date + time, the time below one day
parse_custom_date(date_float) ==
    LET date_int == date_float.whole
        frac == date_float.frac
        date == strptime(str_int(date_int))
    IN  IF ~date.ok THEN date
        ELSE LET time == timedelta(frac)
             IN  [date EXCEPT !.value.second = time.seconds,
                              !.value.microsecond = time.microseconds]

\* load_data: data['dec. Date'].apply(self.parse_custom_date). A field that is
\* text or missing makes int() (or the subtraction) raise.
ParseDates(data) ==
    IF ~has_column(data, DecDate) THEN [ok |-> TRUE, err |-> "", data |-> data]
    ELSE LET c == Col(data, DecDate)
             parsed == [r \in 1..Len(data.rows) |->
                          IF data.rows[r][c][1] = "num"
                          THEN parse_custom_date(data.rows[r][c][2])
                          ELSE Raise("ValueError")]
         IN  IF \E r \in 1..Len(data.rows) : ~parsed[r].ok THEN Raise("ValueError")
             ELSE [ok |-> TRUE, err |-> "",
                   data |-> [data EXCEPT !.rows = [r \in 1..Len(data.rows) |->
                               [data.rows[r] EXCEPT ![c] = parsed[r].value]]]]

\* pd.to_numeric(errors='coerce'): None stands for NaN
to_numeric(cell) == IF cell[1] = "num" THEN Some(cell[2]) ELSE None

\* A fill that puts 1 where the value is missing
fillna_one(value) == IF value = None THEN 1 ELSE The(value)

\* fillna(0)
fillna(value) == IF value = None THEN 0 ELSE The(value)

\* The rows of data at the positions rs, in that order
TakeRows(data, rs) ==
    [data EXCEPT !.rows = [k \in 1..Len(rs) |-> data.rows[rs[k]]],
                 !.index = [k \in 1..Len(rs) |-> data.index[rs[k]]]]

\* load_data, the numeric coercion: every column but the date and the
\* identifier column
CoerceNumeric(data) ==
    [data EXCEPT !.rows = [r \in 1..Len(data.rows) |->
        [k \in 1..Len(data.cols) |->
            IF data.cols[k] \notin {DecDate, CometID}
            THEN fillna(to_numeric(data.rows[r][k]))
            ELSE data.rows[r][k]]]]

\* load_data: data['Comet ID'].astype(str).str.strip()
StripIds(data) ==
    LET c == Col(data, CometID)
    IN  [data EXCEPT !.rows = [r \in 1..Len(data.rows) |->
            [data.rows[r] EXCEPT ![c] = Strip(data.rows[r][c])]]]

\* A loader that matches the filter keys as typed, blanks included
FilterKeysAsTyped(comet_ids) == comet_ids

\* load_data: [str(comet_id).strip() for comet_id in self.comet_ids]
FilterKeys(comet_ids) == StripAll(comet_ids)

\* load_data: data[data['Comet ID'].isin(self.comet_ids)]
IsIn(data, keys) ==
    LET c == Col(data, CometID)
    IN  TakeRows(data, Sorted({r \in 1..Len(data.rows) :
                                  \E k \in 1..Len(keys) : data.rows[r][c] = keys[k]}))

\* DataProcessor.load_data. Every exception is re-raised as ValueError; the
\* result carries the table and self.comet_ids, which the filter rewrites.
load_data(file, delimiter, comet_ids) ==
    IF file = None THEN Raise("ValueError")
    ELSE LET dated == ParseDates(read_csv(The(file), delimiter))
             data == CoerceNumeric(dated.data)
         IN  IF ~dated.ok THEN Raise("ValueError")
             ELSE IF TruthySeq(comet_ids)
             THEN IF ~has_column(data, CometID) THEN Raise("ValueError")
                  ELSE [ok |-> TRUE, err |-> "",
                        data |-> IsIn(StripIds(data), FilterKeys(The(comet_ids))),
                        comet_ids |-> Some(FilterKeys(The(comet_ids)))]
             ELSE [ok |-> TRUE, err |-> "", data |-> data, comet_ids |-> comet_ids]

(***************************************************************************)
(* Graph                                                                   *)
(***************************************************************************)
\* Graph.rename_columns: DataFrame.rename(columns=column_names, inplace=True)
rename_columns(data, column_names) ==
    [data EXCEPT !.cols = [k \in 1..Len(data.cols) |->
                              DictGet(column_names, data.cols[k], data.cols[k])]]

\* Graph.update_y_axes
update_y_axes(cfg) ==
    [cfg EXCEPT !.y_axes = [k \in 1..Len(cfg.y_axes) |->
                               DictGet(cfg.column_names, cfg.y_axes[k], cfg.y_axes[k])]]

(***************************************************************************)
(* Rendering. A drawing call is recorded as                                *)
(*   [fn, x, y, lo, hi, color, edge, marker, label, showlegend]            *)
(* fn: "scatter", "errorbar" (matplotlib) or "markers", "lines" (a Plotly  *)
(* Scatter trace of that mode handed to add_trace); lo and hi are the      *)
(* lower and upper error sequences of an errorbar.                         *)
(***************************************************************************)
\* palette[n % len(palette)], n counted from 0
Cyclic(palette, n) == palette[(n % Len(palette)) + 1]

\* The values of column c at the row positions rs
Values(data, c, rs) == [k \in 1..Len(rs) |-> data.rows[rs[k]][c]]

Hollow == <<"n", "o", "n", "e">>
CircleMarker == <<"o">>

\* _render_static, the per-point scatter loop of a series when "delta T" exists.
\* value is read at position idx of the identifier's rows; shape is reassigned
\* in the loop, so a point with value < 0 leaves "o" for the points after it.
RECURSIVE scatter_points(_, _, _, _, _, _, _)
scatter_points(xs, ys, delta_t, idx, color, shape, comet_id) ==
    IF idx > Len(xs) THEN <<>>
    ELSE LET value == delta_t[idx]
             shape1 == IF value >= 0 THEN shape ELSE CircleMarker
         IN  << [fn |-> "scatter", x |-> <<xs[idx]>>, y |-> <<ys[idx]>>,
                 lo |-> <<>>, hi |-> <<>>,
                 color |-> IF value >= 0 THEN color ELSE Hollow,
                 edge |-> IF value < 0 THEN Some(color) ELSE None,
                 marker |-> shape1,
                 label |-> IF idx = 1 THEN comet_id ELSE <<>>,
                 showlegend |-> TRUE] >>
             \o scatter_points(xs, ys, delta_t, idx + 1, color, shape1, comet_id)

\* plt.errorbar checks yerr against y with np.broadcast_to(yerr, (2, len(y))):
\* it raises ValueError unless the lengths agree or yerr has one point.
ErrorbarRaises(n_y, n_err) == n_err # n_y /\ n_err # 1

\* _render_static, the body of the loop over comet_ids for y-axis i and the
\* j-th identifier (both counted from 1 here): the drawing calls it makes and
\* the exception it raises, if any (an errorbar call that raises is recorded
\* with the sequences it was handed).
render_static_series(cfg, data, comet_ids, i, j) ==
    LET y_axis == Strip(cfg.y_axes[i])
        xc == Col(data, The(cfg.x_axis))
        yc == Col(data, y_axis)
        idc == Col(data, CometID)
        comet_id == comet_ids[j]
        n == Len(data.rows)
        comet_mask == Sorted({r \in 1..n : data.rows[r][idc] = comet_id})
        kept == Sorted({r \in 1..n : data.rows[r][idc] = comet_id /\ data.rows[r][yc] # 0})
        x_comet == Values(data, xc, kept)
        y_comet == Values(data, yc, kept)
        sigup_column == y_axis \o SigUp
        sigdown_column == y_axis \o SigDn
        with_bars == /\ cfg.use_uncertainties
                     /\ has_column(data, sigup_column)
                     /\ has_column(data, sigdown_column)
    IN  IF idc = 0 THEN Raise("KeyError")
        ELSE IF cfg.colors = <<>> \/ cfg.shapes = <<>> THEN Raise("ZeroDivisionError")
        ELSE LET color == Cyclic(cfg.colors, j - 1)
                 shape == Cyclic(cfg.shapes, j - 1)
                 bars == IF with_bars
                         THEN << [fn |-> "errorbar", x |-> x_comet, y |-> y_comet,
                                  lo |-> Values(data, Col(data, sigdown_column), comet_mask),
                                  hi |-> Values(data, Col(data, sigup_column), comet_mask),
                                  color |-> color, edge |-> None, marker |-> Hollow,
                                  label |-> <<>>, showlegend |-> FALSE] >>
                         ELSE <<>>
                 points == IF has_column(data, DeltaT)
                           THEN scatter_points(x_comet, y_comet,
                                               Values(data, Col(data, DeltaT), comet_mask),
                                               1, color, shape, comet_id)
                           ELSE << [fn |-> "scatter", x |-> x_comet, y |-> y_comet,
                                    lo |-> <<>>, hi |-> <<>>,
                                    color |-> color, edge |-> None, marker |-> shape,
                                    label |-> comet_id, showlegend |-> TRUE] >>
             IN  IF with_bars /\ ErrorbarRaises(Len(kept), Len(comet_mask))
                 THEN [ok |-> FALSE, err |-> "ValueError", calls |-> bars]
                 ELSE [ok |-> TRUE, err |-> "", calls |-> bars \o points]

\* _render_interactive, marker_mapping.get(token, default)
PlotlyCircle == <<"c", "i", "r", "c", "l", "e">>
PlotlyCircleOpen == PlotlyCircle \o <<"-", "o", "p", "e", "n">>
marker_mapping ==
    << <<CircleMarker, PlotlyCircle>>,
       << <<"s">>, <<"s", "q", "u", "a", "r", "e">> >>,
       << <<"^">>, <<"t", "r", "i", "a", "n", "g", "l", "e", "-", "u", "p">> >>,
       << <<"v">>, <<"t", "r", "i", "a", "n", "g", "l", "e", "-", "d", "o", "w", "n">> >>,
       << <<"<">>, <<"t", "r", "i", "a", "n", "g", "l", "e", "-", "l", "e", "f", "t">> >>,
       << <<">">>, <<"t", "r", "i", "a", "n", "g", "l", "e", "-", "r", "i", "g", "h", "t">> >>,
       << <<"d">>, <<"d", "i", "a", "m", "o", "n", "d">> >>,
       << <<"h">>, <<"h", "e", "x", "a", "g", "o", "n">> >>,
       << <<"+">>, <<"c", "r", "o", "s", "s">> >>,
       << <<"x">>, <<"x">> >> >>

\* _render_interactive, one trace per row of "delta T" (from row position k on)
\* for y-axis i: shapes[0] or shapes[1] is indexed before the colour. A failure
\* keeps the traces added for the rows before it.
RECURSIVE delta_traces(_, _, _, _, _, _, _)
delta_traces(cfg, data, xc, yc, name, i, k) ==
    IF k > Len(data.rows) THEN [ok |-> TRUE, err |-> "", calls |-> <<>>]
    ELSE LET value == data.rows[k][Col(data, DeltaT)]
             need == IF value >= 0 THEN 1 ELSE 2
             rest == delta_traces(cfg, data, xc, yc, name, i, k + 1)
         IN  IF Len(cfg.shapes) < need THEN Raise("IndexError")
             ELSE IF cfg.colors = <<>> THEN Raise("ZeroDivisionError")
             ELSE [rest EXCEPT !.calls =
                    << [fn |-> "markers", x |-> <<data.rows[k][xc]>>,
                        y |-> <<data.rows[k][yc]>>, lo |-> <<>>, hi |-> <<>>,
                        color |-> Cyclic(cfg.colors, i - 1), edge |-> None,
                        marker |-> IF value >= 0
                                   THEN DictGet(marker_mapping, cfg.shapes[1], PlotlyCircle)
                                   ELSE DictGet(marker_mapping, cfg.shapes[2], PlotlyCircleOpen),
                        label |-> IF data.index[k] = 0 THEN name ELSE <<>>,
                        showlegend |-> TRUE] >> \o rest.calls]

\* _render_interactive, the body of the loop over y_axes for y-axis i (counted
\* from 1 here). The table holds no NaN after load_data, so dropna drops nothing.
render_interactive_axis(cfg, data, i) ==
    LET y_axis == Strip(cfg.y_axes[i])
        xc == Col(data, The(cfg.x_axis))
        yc == Col(data, y_axis)
        all == [r \in 1..Len(data.rows) |-> r]
        name == DictGet(cfg.column_names, y_axis, y_axis)
        sigup_column == y_axis \o SigUp
        sigdown_column == y_axis \o SigDn
        with_bars == /\ cfg.use_uncertainties
                     /\ has_column(data, sigup_column)
                     /\ has_column(data, sigdown_column)
        points == IF has_column(data, DeltaT)
                  THEN delta_traces(cfg, data, xc, yc, name, i, 1)
                  ELSE IF cfg.shapes = <<>> \/ cfg.colors = <<>>
                  THEN Raise("ZeroDivisionError")
                  ELSE [ok |-> TRUE, err |-> "", calls |->
                         << [fn |-> "markers", x |-> Values(data, xc, all),
                             y |-> Values(data, yc, all), lo |-> <<>>, hi |-> <<>>,
                             color |-> Cyclic(cfg.colors, i - 1), edge |-> None,
                             marker |-> DictGet(marker_mapping, Cyclic(cfg.shapes, i - 1),
                                                PlotlyCircle),
                             label |-> name, showlegend |-> TRUE] >>]
        band(column, sign) ==
            [fn |-> "lines", x |-> Values(data, xc, all),
             y |-> [r \in 1..Len(data.rows) |->
                      data.rows[r][yc] + sign * data.rows[r][Col(data, column)]],
             lo |-> <<>>, hi |-> <<>>,
             color |-> Cyclic(cfg.colors, i - 1), edge |-> None, marker |-> Hollow,
             label |-> <<>>, showlegend |-> FALSE]
    IN  IF yc = 0 THEN Raise("KeyError")
        ELSE IF ~points.ok THEN points
        ELSE IF with_bars /\ cfg.colors = <<>>
        THEN [ok |-> FALSE, err |-> "ZeroDivisionError", calls |-> points.calls]
        ELSE [ok |-> TRUE, err |-> "", calls |->
                points.calls \o (IF with_bars
                                 THEN <<band(sigup_column, 1), band(sigdown_column, -1)>>
                                 ELSE <<>>)]

\* int(a / b) for b # 0: the quotient truncated towards zero
Trunc(a, b) ==
    LET q == (IF a < 0 THEN -a ELSE a) \div (IF b < 0 THEN -b ELSE b)
    IN  IF (a < 0) = (b < 0) THEN q ELSE -q

\* list(range(start, stop, step)) for step # 0
PyRange(start, stop, step) ==
    LET count == IF step > 0
                 THEN (IF stop > start THEN (stop - start + step - 1) \div step ELSE 0)
                 ELSE (IF stop < start THEN (start - stop - step - 1) \div (-step) ELSE 0)
    IN  [k \in 1..count |-> start + (k - 1) * step]

\* The x tick positions of both renderers:
\* range(int(x_min), int(x_max) + 1, int((x_max - x_min) / x_ticks)).
\* int(None) raises TypeError, a step of 0 makes range raise ValueError.
x_tick_positions(cfg) ==
    IF ~TruthyInt(cfg.x_ticks) THEN [ok |-> TRUE, err |-> "", ticks |-> None]
    ELSE IF cfg.x_min = None \/ cfg.x_max = None THEN Raise("TypeError")
    ELSE LET step == Trunc(The(cfg.x_max) - The(cfg.x_min), The(cfg.x_ticks))
         IN  IF step = 0 THEN Raise("ValueError")
             ELSE [ok |-> TRUE, err |-> "",
                   ticks |-> Some(PyRange(The(cfg.x_min), The(cfg.x_max) + 1, step))]

\* _render_static, the y ticks: y_step = (y_max - y_min) / y_ticks, and
\* abs(y_step) < 1e-6 raises ValueError. The bounds are whole numbers and the
\* tick count is far below 10^6, so the step is that small only when it is 0.
y_tick_step(cfg) ==
    IF ~TruthyInt(cfg.y_ticks) THEN [ok |-> TRUE, err |-> "", set |-> FALSE]
    ELSE IF cfg.y_min = None \/ cfg.y_max = None THEN Raise("TypeError")
    ELSE IF The(cfg.y_max) - The(cfg.y_min) = 0 THEN Raise("ValueError")
    ELSE [ok |-> TRUE, err |-> "", set |-> TRUE]

(***************************************************************************)
(* The run (__main__)                                                      *)
(***************************************************************************)
\* parser.parse_args(): the options given on the command line, with the
\* defaults of add_argument for those left out (None there: not given).
parse_args(cmdline) ==
    [cmdline EXCEPT
        !.delimiter = IF cmdline.delimiter = None THEN <<"\t">> ELSE The(cmdline.delimiter),
        !.dpi = IF cmdline.dpi = None THEN DefaultDpi ELSE The(cmdline.dpi),
        !.font_size = IF cmdline.font_size = None THEN DefaultFontSize
                      ELSE The(cmdline.font_size),
        !.output_format = IF cmdline.output_format = None THEN <<"p", "n", "g">>
                          ELSE The(cmdline.output_format),
        !.style = IF cmdline.style = None THEN <<"c", "l", "a", "s", "s", "i", "c">>
                  ELSE The(cmdline.style)]

VARIABLES
    args,       \* the argparse Namespace; file, import_config, export_config: whether given
    yamlFile,   \* what yaml.safe_load reads from the --import-config file
    csvFile,    \* the --file input: None, or [delimiter, cols, rows]
    pc,         \* where the run is
    failedAt,   \* the pc at which an exception ended the run
    err,        \* that exception
    config,     \* the GraphConfig
    exported,   \* the mapping written to the --export-config file, if any
    dp,         \* the DataProcessor: [data, comet_ids]
    i, j,       \* the renderer's loop counters (from 1)
    calls,      \* the drawing calls made so far
    labels,     \* the axis titles, legend switch and ticks set on the figure
    writes,     \* how many times output_file was written
    stages,     \* the renderer stages entered so far
    run,        \* 1, or 2 for a run that imports the configuration the first exported
    previous    \* in run 2: the first run's [config, exported]

vars == <<args, yamlFile, csvFile, pc, failedAt, err, config, exported, dp, i, j,
          calls, labels, writes, stages, run, previous>>

Unset == [unset |-> TRUE]

inputs == <<args, yamlFile, csvFile>>
render_state == <<i, j, calls, labels, writes, stages>>

Start(cmdline, yaml, csv) ==
    /\ args = parse_args(cmdline)
    /\ yamlFile = yaml
    /\ csvFile = csv
    /\ pc = "start"
    /\ failedAt = ""
    /\ err = ""
    /\ config = Unset
    /\ exported = None
    /\ dp = Unset
    /\ i = 0
    /\ j = 0
    /\ calls = <<>>
    /\ labels = Unset
    /\ writes = 0
    /\ stages = <<>>
    /\ run = 1
    /\ previous = Unset

\* An uncaught exception ends the run.
Fail(kind) ==
    /\ pc' = "failed"
    /\ failedAt' = pc
    /\ err' = kind

\* config = GraphConfig(import_config=...) or GraphConfig(args=args)
Configure ==
    /\ pc = "start"
    /\ LET made == IF args.import_config THEN GraphConfigFromYaml(yamlFile)
                   ELSE GraphConfigFromArgs(args)
       IN  IF made.ok
           THEN /\ config' = made.cfg
                /\ pc' = "configured"
                /\ UNCHANGED <<failedAt, err>>
           ELSE /\ Fail(made.err)
                /\ UNCHANGED config
    /\ UNCHANGED <<inputs, exported, dp, render_state, run, previous>>

\* if args.export_config: config.export_to_yaml(...); then the --file check
ExportAndCheckFile ==
    /\ pc = "configured"
    /\ exported' = IF args.export_config THEN Some(export_to_yaml(config)) ELSE None
    /\ IF ~args.file /\ ~args.import_config
       THEN Fail("ValueError")
       ELSE pc' = "checked" /\ UNCHANGED <<failedAt, err>>
    /\ UNCHANGED <<inputs, config, dp, render_state, run, previous>>

\* The filter handed to the loader: args.comet_id.split(",")
LoaderFilter ==
    IF TruthySeq(args.comet_id) THEN Some(Split(The(args.comet_id), ",")) ELSE None

\* data_processor = DataProcessor(args.file, config.delimiter, comet_ids)
Load ==
    /\ pc = "checked"
    /\ LET loaded == load_data(IF args.file THEN csvFile ELSE None,
                               config.delimiter, LoaderFilter)
       IN  IF loaded.ok
           THEN /\ dp' = [data |-> loaded.data, comet_ids |-> loaded.comet_ids]
                /\ pc' = "loaded"
                /\ UNCHANGED <<failedAt, err>>
           ELSE /\ Fail(loaded.err)
                /\ UNCHANGED dp
    /\ UNCHANGED <<inputs, config, exported, render_state, run, previous>>

\* graph = Graph(config, data_processor): rename_columns, update_y_axes
GraphInit ==
    /\ pc = "loaded"
    /\ dp' = [dp EXCEPT !.data = rename_columns(dp.data, config.column_names)]
    /\ config' = update_y_axes(config)
    /\ pc' = "graph"
    /\ UNCHANGED <<inputs, failedAt, err, exported, render_state, run, previous>>

\* Graph.render: the renderer chosen by config.interactive
Render ==
    /\ pc = "graph"
    /\ pc' = IF config.interactive THEN "interactive" ELSE "static"
    /\ UNCHANGED <<inputs, failedAt, err, config, exported, dp, render_state, run, previous>>

\* data[x_axis] raises KeyError for a name that is no column (None included)
XLookupFails == config.x_axis = None \/ ~has_column(dp.data, The(config.x_axis))

\* _render_static up to the loop: style, rcParams, figure, x = data[x_axis]
StaticStyle ==
    /\ pc = "static"
    /\ stages' = Append(stages, "style")
    /\ IF XLookupFails
       THEN Fail("KeyError") /\ UNCHANGED i
       ELSE pc' = "plot" /\ i' = 1 /\ UNCHANGED <<failedAt, err>>
    /\ UNCHANGED <<inputs, config, exported, dp, j, calls, labels, writes, run, previous>>

\* _render_interactive up to the loop: x = data[x_axis], the figure
InteractiveSetup ==
    /\ pc = "interactive"
    /\ IF XLookupFails
       THEN Fail("KeyError") /\ UNCHANGED i
       ELSE pc' = "plot" /\ i' = 1 /\ UNCHANGED <<failedAt, err>>
    /\ UNCHANGED <<inputs, config, exported, dp, j, calls, labels, writes, stages,
                   run, previous>>

\* A loop over y_axes that stops one axis short
MoreAxesButLast == i < Len(config.y_axes)

\* The loop over y_axes has more to do
MoreAxes == i <= Len(config.y_axes)

EnterPlot == IF stages # <<>> /\ stages[Len(stages)] = "plot" THEN stages
             ELSE Append(stages, "plot")

\* _render_static, the head of the loop over y_axes: y = data[y_axis], the
\* masks, and enumerate(self.data_processor.comet_ids)
StaticAxis ==
    /\ pc = "plot"
    /\ ~config.interactive
    /\ MoreAxes
    /\ stages' = EnterPlot
    /\ IF ~has_column(dp.data, Strip(config.y_axes[i]))
       THEN Fail("KeyError") /\ UNCHANGED <<i, j>>
       ELSE IF dp.comet_ids = None
       THEN Fail("TypeError") /\ UNCHANGED <<i, j>>
       ELSE IF The(dp.comet_ids) = <<>>
       THEN i' = i + 1 /\ UNCHANGED <<pc, failedAt, err, j>>
       ELSE pc' = "series" /\ j' = 1 /\ UNCHANGED <<failedAt, err, i>>
    /\ UNCHANGED <<inputs, config, exported, dp, calls, labels, writes, run, previous>>

\* _render_static, one pass of the loop over comet_ids
StaticSeries ==
    /\ pc = "series"
    /\ LET drawn == render_static_series(config, dp.data, The(dp.comet_ids), i, j)
       IN  /\ calls' = calls \o drawn.calls
           /\ IF ~drawn.ok
              THEN Fail(drawn.err) /\ UNCHANGED <<i, j>>
              ELSE IF j < Len(The(dp.comet_ids))
              THEN j' = j + 1 /\ UNCHANGED <<pc, failedAt, err, i>>
              ELSE pc' = "plot" /\ i' = i + 1 /\ UNCHANGED <<failedAt, err, j>>
    /\ UNCHANGED <<inputs, config, exported, dp, labels, writes, stages, run, previous>>

\* _render_interactive, one pass of the loop over y_axes
InteractiveAxis ==
    /\ pc = "plot"
    /\ config.interactive
    /\ MoreAxes
    /\ stages' = EnterPlot
    /\ LET drawn == render_interactive_axis(config, dp.data, i)
       IN  /\ calls' = calls \o drawn.calls
           /\ IF ~drawn.ok
              THEN Fail(drawn.err) /\ UNCHANGED i
              ELSE i' = i + 1 /\ UNCHANGED <<pc, failedAt, err>>
    /\ UNCHANGED <<inputs, config, exported, dp, j, labels, writes, run, previous>>

\* What follows the loop, up to the write: xlabel/ylabel (update_layout), the
\* legend, the x ticks and, in _render_static only, the y ticks.
Finalize ==
    /\ pc = "plot"
    /\ ~MoreAxes
    /\ stages' = Append(EnterPlot, "finalize")
    /\ LET xt == x_tick_positions(config)
           yt == IF config.interactive THEN [ok |-> TRUE, err |-> "", set |-> FALSE]
                 ELSE y_tick_step(config)
           titled == [xlabel |-> config.x_axis_title, ylabel |-> config.y_axis_title,
                      legend |-> config.legend, xticks |-> None, yticks |-> FALSE]
       IN  IF ~xt.ok
           THEN Fail(xt.err) /\ labels' = titled
           ELSE IF ~yt.ok
           THEN Fail(yt.err) /\ labels' = [titled EXCEPT !.xticks = xt.ticks]
           ELSE /\ pc' = "write"
                /\ labels' = [titled EXCEPT !.xticks = xt.ticks, !.yticks = yt.set]
                /\ UNCHANGED <<failedAt, err>>
    /\ UNCHANGED <<inputs, config, exported, dp, i, j, calls, writes, run, previous>>

\* plt.savefig(output_file) and plt.close(), or fig.write_html(output_file) and
\* webbrowser.open(output_file)
Write ==
    /\ pc = "write"
    /\ writes' = writes + 1
    /\ stages' = stages \o <<"write", "done">>
    /\ pc' = "done"
    /\ UNCHANGED <<inputs, failedAt, err, config, exported, dp, i, j, calls, labels,
                   run, previous>>

Next ==
    \/ Configure
    \/ ExportAndCheckFile
    \/ Load
    \/ GraphInit
    \/ Render
    \/ StaticStyle
    \/ InteractiveSetup
    \/ StaticAxis
    \/ StaticSeries
    \/ InteractiveAxis
    \/ Finalize
    \/ Write

(***************************************************************************)
(* The inputs of the checked runs                                          *)
(***************************************************************************)
MaxRows == 2

Tab == <<"\t">>
T == <<"t">>
Mag == <<"m">>

\* Tick requests: none; x ticks with a step of 2, of int(0.5) = 0, and without
\* bounds; y ticks with a step of 2 and of 0.
NoTicks == [x_min |-> None, x_max |-> None, x_ticks |-> None,
            y_min |-> None, y_max |-> None, y_ticks |-> None]
TickChoices ==
    { NoTicks,
      [NoTicks EXCEPT !.x_min = Some(0), !.x_max = Some(4), !.x_ticks = Some(2)],
      [NoTicks EXCEPT !.x_min = Some(0), !.x_max = Some(1), !.x_ticks = Some(2)],
      [NoTicks EXCEPT !.x_ticks = Some(2)],
      [NoTicks EXCEPT !.y_min = Some(0), !.y_max = Some(4), !.y_ticks = Some(2)],
      [NoTicks EXCEPT !.y_min = Some(3), !.y_max = Some(3), !.y_ticks = Some(2)] }

\* Palettes: none given, or two colours and two shapes
Palettes == { [colors |-> <<>>, shapes |-> <<>>],
              [colors |-> << <<"r">>, <<"b">> >>, shapes |-> << <<"s">>, <<"^">> >>] }

\* Identifier filters as typed on the command line
IdA == <<"a">>
IdB == <<"b">>
IdZ == <<"z">>

\* What a run is asked to do; Cmdline and YamlOf write it down for each source.
Request(xa, ya, out, ids, pal, inter, unc, tick, ren, title) ==
    [x_axis |-> xa, y_axes |-> ya, output_file |-> out, comet_ids |-> ids,
     palette |-> pal, interactive |-> inter, use_uncertainties |-> unc,
     ticks |-> tick, column_names |-> ren, y_axis_title |-> title]

\* The command line of a run configured by discrete options
Cmdline(q, file, export) ==
    [file |-> file,
     delimiter |-> None,
     x_axis |-> q.x_axis,
     y_axes |-> IF q.y_axes = None THEN None ELSE Some(Join(<<",">>, The(q.y_axes))),
     x_min |-> q.ticks.x_min, x_max |-> q.ticks.x_max,
     y_min |-> q.ticks.y_min, y_max |-> q.ticks.y_max,
     colors |-> IF q.palette.colors = <<>> THEN None
                ELSE Some(Join(<<",">>, q.palette.colors)),
     shapes |-> IF q.palette.shapes = <<>> THEN None
                ELSE Some(Join(<<",">>, q.palette.shapes)),
     legend |-> TRUE,
     dpi |-> None,
     font_size |-> None,
     output_file |-> q.output_file,
     output_format |-> None,
     interactive |-> q.interactive,
     use_uncertainties |-> q.use_uncertainties,
     style |-> None,
     x_ticks |-> q.ticks.x_ticks, y_ticks |-> q.ticks.y_ticks,
     column_names |-> IF q.column_names = <<>> THEN None ELSE Some(q.column_names),
     import_config |-> FALSE,
     export_config |-> export,
     x_axis_title |-> None,
     y_axis_title |-> q.y_axis_title,
     comet_id |-> IF q.comet_ids = None THEN None
                  ELSE Some(Join(<<",">>, The(q.comet_ids)))]

\* The command line of a run configured by a file: --import-config, --file and
\* whatever else is typed, here --comet-id and --export-config
ImportCmdline(ids, file, export) ==
    [Cmdline(Request(None, None, None, ids, [colors |-> <<>>, shapes |-> <<>>],
                     FALSE, FALSE, NoTicks, <<>>, None), file, export)
        EXCEPT !.import_config = TRUE, !.legend = FALSE]

\* The configuration file of the same request: a key is left out when the
\* request leaves the value out
YamlOf(q) ==
    LET full == [x_axis |-> q.x_axis, y_axes |-> q.y_axes,
                 output_file |-> q.output_file, comet_ids |-> q.comet_ids,
                 colors |-> q.palette.colors, shapes |-> q.palette.shapes,
                 interactive |-> q.interactive,
                 use_uncertainties |-> q.use_uncertainties,
                 x_min |-> q.ticks.x_min, x_max |-> q.ticks.x_max,
                 x_ticks |-> q.ticks.x_ticks, y_min |-> q.ticks.y_min,
                 y_max |-> q.ticks.y_max, y_ticks |-> q.ticks.y_ticks,
                 column_names |-> q.column_names, y_axis_title |-> q.y_axis_title,
                 legend |-> TRUE, delimiter |-> Tab]
        left_out == {k \in {"x_axis", "y_axes", "output_file", "comet_ids",
                            "x_min", "x_max", "x_ticks", "y_min", "y_max", "y_ticks",
                            "y_axis_title"} : full[k] = None}
                    \cup (IF q.palette.colors = <<>> THEN {"colors", "shapes"} ELSE {})
                    \cup (IF q.column_names = <<>> THEN {"column_names"} ELSE {})
    IN  [k \in (DOMAIN full) \ left_out |-> full[k]]

\* Input files: tab-delimited, columns Comet ID, t, m and optionally the two
\* uncertainty columns of m and delta T. Row r has t = r, msigup = 10 + r and
\* msigdn = 20 + r, so that a value tells which row it came from.
CsvCols(sig, dt) ==
    <<CometID, T, Mag>> \o (IF sig THEN <<Mag \o SigUp, Mag \o SigDn>> ELSE <<>>)
                        \o (IF dt THEN <<DeltaT>> ELSE <<>>)

CsvRow(r, id, m, d, sig, dt) ==
    <<id, <<"num", r>>, m>>
        \o (IF sig THEN << <<"num", 10 + r>>, <<"num", 20 + r>> >> ELSE <<>>)
        \o (IF dt THEN << <<"num", d>> >> ELSE <<>>)

\* picks: one <<id, m, delta T>> per row
Csv(picks, sig, dt) ==
    [delimiter |-> Tab, cols |-> CsvCols(sig, dt),
     rows |-> [r \in 1..Len(picks) |->
                  CsvRow(r, picks[r][1], picks[r][2], picks[r][3], sig, dt)]]

SeqsUpTo(S, n) == UNION {[1..k -> S] : k \in 0..n}

\* The runs of Spec: every request, from either source, over two input files
Requests ==
    { Request(xa, ya, out, ids, pal, inter, TRUE, tick, ren, title) :
        xa \in {None, Some(T)}, ya \in {None, Some(<<Mag>>)},
        out \in {None, Some(<<"o">>)},
        ids \in {None, Some(<<IdA, IdB>>), Some(<<IdZ>>)},
        pal \in Palettes, inter \in BOOLEAN,
        tick \in TickChoices,
        ren \in {<<>>, << <<"M", "=", "m">> >>, << <<"X", "=", "t">> >>},
        title \in {None, Some(<<"Y">>)} }

SpecCsvs ==
    { Csv(<< <<IdA, <<"num", 5>>, 1>>, <<IdB, <<"num", 7>>, -1>> >>, TRUE, FALSE),
      Csv(<< <<IdA, <<"num", 5>>, 1>>, <<IdA, <<"num", 0>>, -1>> >>, TRUE, TRUE) }

Init ==
    \E q \in Requests, csv \in SpecCsvs, file \in BOOLEAN, export \in BOOLEAN :
        \/ Start(Cmdline(q, file, export), Unset, Some(csv))
        \/ \E ids \in {None, Some(<<IdA>>)} :
              Start(ImportCmdline(ids, file, export), YamlOf(q), Some(csv))

Spec == Init /\ [][Next]_vars

(***************************************************************************)
(* SpecData: valid requests by discrete options over every input file of   *)
(* up to MaxRows rows                                                      *)
(***************************************************************************)
Out == <<"o">>

DataRequests ==
    { Request(Some(T), ya, Some(Out), ids, pal, inter, unc, NoTicks, <<>>, None) :
        ya \in {Some(<<Mag>>), Some(<<Mag, T>>)},
        ids \in {None, Some(<<IdA>>), Some(<<IdA, IdB>>), Some(<<IdZ>>)},
        pal \in Palettes, inter \in BOOLEAN, unc \in BOOLEAN }

\* The same file with its uncertainty columns named m_sigup and m_sigdn
Underscored(csv) ==
    [csv EXCEPT !.cols = [k \in 1..Len(csv.cols) |->
        IF csv.cols[k] = Mag \o SigUp THEN Mag \o <<"_">> \o SigUp
        ELSE IF csv.cols[k] = Mag \o SigDn THEN Mag \o <<"_">> \o SigDn
        ELSE csv.cols[k]]]

DataCsvs ==
    LET plain == { Csv(picks, sig, dt) :
                     picks \in SeqsUpTo({IdA, IdB} \X {<<"num", 5>>, <<"num", 0>>} \X {1, -1},
                                        MaxRows),
                     sig \in BOOLEAN, dt \in BOOLEAN }
    IN  plain \cup {Underscored(csv) : csv \in plain}

InitData ==
    \E q \in DataRequests, csv \in DataCsvs : Start(Cmdline(q, TRUE, FALSE), Unset, Some(csv))

SpecData == InitData /\ [][Next]_vars

(***************************************************************************)
(* SpecLoad: the run up to the loaded table, over identifiers and filter   *)
(* keys that differ in surrounding blanks and in case, and over fields     *)
(* that are numbers, text or missing                                       *)
(***************************************************************************)
LoadIds == { IdA, <<" ", "a">>, <<"a", " ">>, <<"A">>, IdB }
LoadKeys == { IdA, <<" ", "a", " ">>, <<"A">>, <<"b", " ">> }

\* The m field of a row: a number, text that is no number, or nothing
LoadCells == { <<"num", 5>>, <<"txt", 0>>, <<"nan", 0>> }

LoadCsvs ==
    { Csv([r \in 1..Len(picks) |-> <<picks[r][1], picks[r][2], 1>>], FALSE, FALSE) :
        picks \in SeqsUpTo(LoadIds \X LoadCells, MaxRows) }

LoadRequests ==
    { Request(Some(T), Some(<<Mag>>), Some(Out), ids, [colors |-> <<>>, shapes |-> <<>>],
              FALSE, FALSE, NoTicks, <<>>, None) :
        ids \in {None} \cup {Some(keys) : keys \in SeqsUpTo(LoadKeys, 2) \ {<<>>}} }

InitLoad ==
    \E q \in LoadRequests, csv \in LoadCsvs : Start(Cmdline(q, TRUE, FALSE), Unset, Some(csv))

NextLoad == Configure \/ ExportAndCheckFile \/ Load

SpecLoad == InitLoad /\ [][NextLoad]_vars

(***************************************************************************)
(* SpecDate: the run up to the loaded table, over files with a "dec. Date" *)
(* column                                                                  *)
(***************************************************************************)
\* Day parts: the last day of a year, the first of the next, a leap day, a
\* 29th of February that is none, a 13th month, a day 00, and a day part of
\* seven digits.
DateWholes == { 20231231, 20240101, 20240229, 20230229, 20241301, 20240100, 2024115 }

\* Fractions of a day in 1/FracDen: none, 337.5 s, half a day, the last one
DateFracs == { 0, 1, 128, 255 }

DateCells ==
    { <<"num", [whole |-> w, frac |-> f]>> : w \in DateWholes, f \in DateFracs }
        \cup { <<"nan", 0>> }

DateCsvs ==
    { [delimiter |-> Tab, cols |-> <<CometID, DecDate, Mag>>,
       rows |-> [r \in 1..Len(dates) |-> <<IdA, dates[r], <<"num", 5>> >>]] :
        dates \in SeqsUpTo(DateCells, MaxRows) }

DateRequest ==
    Request(Some(DecDate), Some(<<Mag>>), Some(Out), None, [colors |-> <<>>, shapes |-> <<>>],
            FALSE, FALSE, NoTicks, <<>>, None)

InitDate == \E csv \in DateCsvs : Start(Cmdline(DateRequest, TRUE, FALSE), Unset, Some(csv))

SpecDate == InitDate /\ [][NextLoad]_vars

(***************************************************************************)
(* SpecNames: configuration resolution over rename directives, well formed *)
(* or not, from either source                                              *)
(***************************************************************************)
\* Directives: plain, with blanks, a second display name for m, one for t,
\* without a separator, with two separators, with an empty display name
Directives ==
    { <<"M", "=", "m">>, <<" ", "M", " ", "=", " ", "m", " ">>, <<"N", "=", "m">>,
      <<"M", "=", "t">>, <<"M", "m">>, <<"M", "=", "m", "=", "t">>, <<"=", "m">> }

NamesRequests ==
    { Request(Some(T), Some(<<Mag>>), Some(Out), None, [colors |-> <<>>, shapes |-> <<>>],
              FALSE, FALSE, NoTicks, ren, None) :
        ren \in SeqsUpTo(Directives, 2) }

InitNames ==
    \E q \in NamesRequests, export \in BOOLEAN :
        \/ Start(Cmdline(q, TRUE, export), Unset, None)
        \/ Start(ImportCmdline(None, TRUE, export), YamlOf(q), None)

NextNames == Configure \/ ExportAndCheckFile

SpecNames == InitNames /\ [][NextNames]_vars

(***************************************************************************)
(* SpecDefaults: configuration resolution from either source, each         *)
(* optional field given or left out, each title given, left out or (in a   *)
(* file) null                                                              *)
(***************************************************************************)
\* The values the optional fields take when they are given
Given == [delimiter |-> <<";">>, output_format |-> <<"p", "d", "f">>, dpi |-> 150,
          font_size |-> 9, style |-> <<"g", "g">>, interactive |-> TRUE,
          use_uncertainties |-> TRUE]

TitleChoices == {"absent", "null", "given"}

\* The command line: the required options, the optional ones of the set opts,
\* and the titles that are given
DefaultsCmdline(ya, opts, xt, yt) ==
    LET base == Cmdline(Request(Some(T), Some(ya), Some(Out), None,
                                [colors |-> <<>>, shapes |-> <<>>],
                                "interactive" \in opts, "use_uncertainties" \in opts,
                                NoTicks, <<>>,
                                IF yt = "given" THEN Some(<<"Y">>) ELSE None), TRUE, FALSE)
        opt(k) == IF k \in opts THEN Some(Given[k]) ELSE None
    IN  [base EXCEPT !.delimiter = opt("delimiter"), !.output_format = opt("output_format"),
                     !.dpi = opt("dpi"), !.font_size = opt("font_size"),
                     !.style = opt("style"), !.legend = FALSE,
                     !.x_axis_title = IF xt = "given" THEN Some(<<"X">>) ELSE None]

\* The configuration file of the same choices: a key of opts holds its value, a
\* title that is given or null has its key
DefaultsYaml(ya, opts, xt, yt) ==
    LET titles == (IF xt = "absent" THEN {} ELSE {"x_axis_title"})
                  \cup (IF yt = "absent" THEN {} ELSE {"y_axis_title"})
    IN  [k \in {"x_axis", "y_axes", "output_file"} \cup opts \cup titles |->
            CASE k = "x_axis" -> Some(T)
              [] k = "y_axes" -> Some(ya)
              [] k = "output_file" -> Some(Out)
              [] k = "x_axis_title" -> IF xt = "given" THEN Some(<<"X">>) ELSE None
              [] k = "y_axis_title" -> IF yt = "given" THEN Some(<<"Y">>) ELSE None
              [] OTHER -> Given[k]]

InitDefaults ==
    \E ya \in {<<Mag>>, <<Mag, T>>}, opts \in SUBSET (DOMAIN Given),
       xt \in TitleChoices, yt \in TitleChoices :
        \/ xt # "null" /\ yt # "null"
           /\ Start(DefaultsCmdline(ya, opts, xt, yt), Unset, None)
        \/ Start(ImportCmdline(None, TRUE, FALSE), DefaultsYaml(ya, opts, xt, yt), None)

SpecDefaults == InitDefaults /\ [][NextNames]_vars

(***************************************************************************)
(* SpecPalette: runs over every pair of palettes of up to two entries, one *)
(* to three filter keys and every table of up to MaxRows rows              *)
(***************************************************************************)
\* Requests: one to three filter keys, zero to two colours, zero to two
\* shapes, from either source. Tables: neither uncertainties nor "delta T".
SpecPalette ==
    /\ \E ids \in {<<IdA>>, <<IdA, IdB>>, <<IdA, IdB, <<"c">>>>},
          cs \in { <<>>, << <<"r">> >>, << <<"r">>, <<"b">> >> },
          ss \in { <<>>, << <<"s">> >>, << <<"s">>, <<"^">> >> },
          inter \in BOOLEAN,
          picks \in SeqsUpTo({IdA, IdB, <<"c">>} \X {<<"num", 5>>} \X {1}, MaxRows) :
            LET q == Request(Some(T), Some(<<Mag>>), Some(Out), Some(ids),
                             [colors |-> cs, shapes |-> ss], inter, FALSE,
                             NoTicks, <<>>, None)
                csv == Csv(picks, FALSE, FALSE)
            IN  \/ Start(Cmdline(q, TRUE, FALSE), Unset, Some(csv))
                \/ Start(ImportCmdline(q.comet_ids, TRUE, FALSE), YamlOf(q), Some(csv))
    /\ [][Next]_vars

(***************************************************************************)
(* SpecRoundTrip: a run that exports its configuration, then a second run  *)
(* that imports the exported file and exports again                        *)
(***************************************************************************)
\* The second run: --import-config <the file the first run exported>
\* --export-config <another file>
Rerun ==
    /\ pc = "checked"
    /\ run = 1
    /\ exported # None
    /\ previous' = [config |-> config, exported |-> The(exported)]
    /\ run' = 2
    /\ args' = parse_args(ImportCmdline(None, TRUE, TRUE))
    /\ yamlFile' = The(exported)
    /\ pc' = "start"
    /\ config' = Unset
    /\ exported' = None
    /\ UNCHANGED <<csvFile, failedAt, err, dp, render_state>>

NextRoundTrip == Configure \/ ExportAndCheckFile \/ Rerun

\* Options the requests above leave at their defaults
Plain == [delimiter |-> None, dpi |-> None, font_size |-> None, output_format |-> None,
          style |-> None, legend |-> FALSE, x_axis_title |-> None]
Fancy == [delimiter |-> Some(<<",">>), dpi |-> Some(150), font_size |-> Some(9),
          output_format |-> Some(<<"p", "d", "f">>), style |-> Some(<<"g", "g">>),
          legend |-> TRUE, x_axis_title |-> Some(<<"X">>)]

WithOptions(cmdline, o) ==
    [cmdline EXCEPT !.delimiter = o.delimiter, !.dpi = o.dpi, !.font_size = o.font_size,
                    !.output_format = o.output_format, !.style = o.style,
                    !.legend = o.legend, !.x_axis_title = o.x_axis_title]

YamlWithOptions(yaml, o) ==
    LET given == {k \in DOMAIN o : k # "legend" /\ o[k] # None}
    IN  [k \in DOMAIN yaml \cup given \cup {"legend"} |->
            IF k = "legend" THEN o.legend
            ELSE IF k = "x_axis_title" /\ k \in given THEN o[k]
            ELSE IF k \in given THEN The(o[k])
            ELSE yaml[k]]

RoundTripRequests ==
    { Request(xa, ya, Some(Out), ids, pal, inter, inter, tick, ren, title) :
        xa \in {None, Some(T)}, ya \in {None, Some(<<Mag>>), Some(<<Mag, T>>)},
        ids \in {None, Some(<<IdA, <<" ", "b">> >>)},
        pal \in Palettes, inter \in BOOLEAN,
        tick \in TickChoices,
        ren \in {<<>>, << <<"M", "=", "m">> >>,
                 << <<" ", "M", " ", "=", "m", " ">>, <<"=", "t">>, <<"N", "=", "m">> >>},
        title \in {None, Some(<<"Y">>)} }

InitRoundTrip ==
    \E q \in RoundTripRequests, o \in {Plain, Fancy} :
        \/ Start(WithOptions(Cmdline(q, TRUE, TRUE), o), Unset, None)
        \/ Start(ImportCmdline(None, TRUE, TRUE), YamlWithOptions(YamlOf(q), o), None)

SpecRoundTrip == InitRoundTrip /\ [][NextRoundTrip]_vars

(***************************************************************************)
(* Properties                                                              *)
(***************************************************************************)
RenderPcs == {"static", "interactive", "plot", "series", "write", "done"}

\* The run has entered Graph.render
ReachedRender == pc \in RenderPcs \/ (pc = "failed" /\ failedAt \in RenderPcs)

\* Graph.render raised
RenderFailed == pc = "failed" /\ failedAt \in RenderPcs

\* The configuration source of the run gives no x_axis, no Y axis or no
\* output_file
RequiredMissing ==
    IF args.import_config
    THEN \/ YamlGet(yamlFile, "x_axis", None) = None
         \/ ~TruthySeq(YamlGet(yamlFile, "y_axes", None))
         \/ YamlGet(yamlFile, "output_file", None) = None
    ELSE \/ args.x_axis = None
         \/ args.y_axes = None
         \/ args.output_file = None

\* C1: a run whose configuration source has no x_axis, no Y axis or no
\* output_file is stopped by the validation error of configuration
\* resolution: it never enters Graph.render and never writes an artifact.
C1_MissingFieldRaises ==
    RequiredMissing => (~ReachedRender /\ writes = 0)

\* C2: in a run given --import-config, what the loader is handed comes from the
\* configuration file: the identifier filter it uses is the file's comet_ids
\* (trimmed), whatever --comet-id says.
C2_ImportReplacesOptions ==
    (args.import_config /\ dp # Unset) =>
        dp.comet_ids = IF TruthySeq(YamlGet(yamlFile, "comet_ids", None))
                       THEN Some(StripAll(The(yamlFile.comet_ids)))
                       ELSE None

\* A configuration with x_axis, at least one Y axis and output_file
ValidConfig(cfg) == cfg.x_axis # None /\ cfg.y_axes # <<>> /\ TruthySeq(cfg.output_file)

\* C3: for a valid configuration, importing the exported file succeeds and
\* gives back every field of the configuration (rename mapping, y_ticks and
\* identifier filter included), and exporting again writes the same record.
C3_ExportImportRoundTrip ==
    (run = 2 /\ ValidConfig(previous.config)) =>
        /\ pc # "failed"
        /\ config # Unset => config = previous.config
        /\ pc = "checked" => exported = Some(previous.exported)

\* A second run has imported and exported again a configuration with a rename
\* mapping, a filter and y ticks
C3_RoundTripDone ==
    /\ run = 2
    /\ pc = "checked"
    /\ ValidConfig(previous.config)
    /\ Len(config.column_names) = 2
    /\ config.comet_ids # None
    /\ config.y_ticks # None

\* The positions of the rows of the input file whose trimmed identifier is a
\* trimmed key of --comet-id
Matching ==
    LET file == The(csvFile)
        keys == Split(The(args.comet_id), ",")
    IN  {r \in 1..Len(file.rows) :
            \E k \in 1..Len(keys) : Strip(file.rows[r][1]) = Strip(keys[k])}

\* C4: with a filter, the loaded table holds exactly the input rows whose
\* trimmed identifier equals a trimmed filter key (case kept), in input order:
\* its row labels are the matching positions in increasing order, and each row
\* carries the values of the input row of its label.
C4_FilterKeepsExactlyMatching ==
    (pc = "loaded" /\ args.comet_id # None) =>
        /\ Len(dp.data.rows) = Cardinality(Matching)
        /\ {dp.data.index[k] + 1 : k \in 1..Len(dp.data.index)} = Matching
        /\ \A k \in 1..(Len(dp.data.index) - 1) : dp.data.index[k] < dp.data.index[k + 1]
        /\ \A k \in 1..Len(dp.data.rows) :
              LET input == The(csvFile).rows[dp.data.index[k] + 1]
              IN  /\ dp.data.rows[k][1] = Strip(input[1])
                  /\ \A c \in 2..Len(input) : dp.data.rows[k][c] = input[c][2]

\* A filter whose key has blanks around it kept one of two rows, one whose
\* identifier has blanks around it, and dropped the other
C4_FilteredSome ==
    /\ pc = "loaded"
    /\ args.comet_id = Some(<<" ", "a", " ">>)
    /\ Len(The(csvFile).rows) = 2
    /\ The(csvFile).rows[2][1] = <<"a", " ">>
    /\ dp.data.index = <<1>>

\* C5: when the filter matches no row the load gives a zero-row table without
\* raising, and rendering that table does not raise.
C5_EmptyTableRenders ==
    (dp # Unset /\ args.comet_id # None /\ dp.data.rows = <<>>) => ~RenderFailed

\* The configuration asks for ticks whose step is zero: int((x_max - x_min) /
\* x_ticks) = 0, or y_max - y_min = 0
ZeroStepRequested ==
    \/ /\ TruthyInt(config.x_ticks) /\ config.x_min # None /\ config.x_max # None
       /\ Trunc(The(config.x_max) - The(config.x_min), The(config.x_ticks)) = 0
    \/ /\ TruthyInt(config.y_ticks) /\ config.y_min # None /\ config.y_max # None
       /\ The(config.y_max) - The(config.y_min) = 0

\* C6: a requested tick count whose step is zero makes the run raise a
\* validation error before any drawing call: such a run never has a drawing
\* call on record and never gets to the write.
C6_ZeroStepRaisesBeforeDrawing ==
    (config # Unset /\ ZeroStepRequested) => (calls = <<>> /\ pc \notin {"write", "done"})

StageOrder == <<"style", "plot", "finalize", "write", "done">>
StageRank(stage) == CHOOSE k \in 1..Len(StageOrder) : StageOrder[k] = stage

C8_ErrorBarsMatchSeries ==
    \A k \in 1..Len(calls) :
        calls[k].fn = "errorbar" =>
            /\ Len(calls[k].x) = Len(calls[k].y)
            /\ Len(calls[k].lo) = Len(calls[k].y)
            /\ Len(calls[k].hi) = Len(calls[k].y)

\* C9: a run without an identifier filter (and with a palette) renders without
\* failing, and when it is done every row with a Y value has been plotted.
C9_NoFilterPlotsEveryRow ==
    (args.comet_id = None /\ config # Unset /\ config.colors # <<>> /\ config.shapes # <<>>) =>
        /\ ~RenderFailed
        /\ pc = "done" =>
              \A r \in 1..Len(dp.data.rows) :
                  \E k \in 1..Len(calls) :
                      \E n \in 1..Len(calls[k].x) : calls[k].x[n] = dp.data.rows[r][2]

\* The rename directive renames a Y axis of the request and no Y title is given
RenamedUntitled ==
    /\ \E k \in 1..Len(config.column_names) :
          /\ config.column_names[k][1] = Mag
          /\ config.column_names[k][2] # Mag
    /\ IF args.import_config THEN "y_axis_title" \notin DOMAIN yamlFile
       ELSE args.y_axis_title = None

\* C10: with a Y axis renamed and no explicit title, no rendered label (axis
\* title or legend entry) contains the original column name.
C10_LabelsUseDisplayName ==
    (labels # Unset /\ RenamedUntitled) =>
        /\ ~Contains(The(labels.ylabel), Mag)
        /\ \A k \in 1..Len(calls) : ~Contains(calls[k].label, Mag)

\* The upper and the lower uncertainty column of a Y column: the columns
\* get_uncertainties returns whose name starts with the name of the Y column
UncertaintyColumns(data, y_axis) ==
    LET found == get_uncertainties(data)
        of(cols) == {k \in 1..Len(cols) : StartsWith(cols[k], y_axis)}
    IN  [up |-> {found.sigup_columns[k] : k \in of(found.sigup_columns)},
         down |-> {found.sigdown_columns[k] : k \in of(found.sigdown_columns)}]

\* C11: a static run with use_uncertainties, a palette, a filter of one
\* identifier and a table that holds an upper and a lower uncertainty column of
\* the Y column m does not fail in the renderer, and once it is done every row
\* of that identifier with a Y value is a plotted point of an errorbar call whose
\* band at that point holds the sigup and sigdn values of the same row.
C11_BandFromOwnRow ==
    LET data == dp.data
        unc == UncertaintyColumns(data, Mag)
    IN  (/\ dp # Unset /\ config # Unset
         /\ ~config.interactive /\ config.use_uncertainties
         /\ config.colors # <<>> /\ config.shapes # <<>>
         /\ config.y_axes = <<Mag>>
         /\ dp.comet_ids # None /\ Len(The(dp.comet_ids)) = 1
         /\ unc.up # {} /\ unc.down # {}) =>
            /\ ~RenderFailed
            /\ pc = "done" =>
                  \A r \in 1..Len(data.rows) :
                      data.rows[r][Col(data, Mag)] # 0 =>
                          \E c \in 1..Len(calls) :
                              /\ calls[c].fn = "errorbar"
                              /\ Len(calls[c].lo) = Len(calls[c].x)
                              /\ Len(calls[c].hi) = Len(calls[c].x)
                              /\ \E k \in 1..Len(calls[c].x) :
                                    /\ calls[c].x[k] = data.rows[r][Col(data, T)]
                                    /\ calls[c].y[k] = data.rows[r][Col(data, Mag)]
                                    /\ \E u \in unc.up :
                                          calls[c].hi[k] = data.rows[r][Col(data, u)]
                                    /\ \E d \in unc.down :
                                          calls[c].lo[k] = data.rows[r][Col(data, d)]

\* C12: load_data does not raise on a file whose fields are text or missing,
\* and in the loaded table every column but the date and the identifier column
\* holds numbers only: the number of the input field where it is one, 0 where
\* the field is text or missing.
C12_NonNumericBecomesZero ==
    /\ ~(pc = "failed" /\ failedAt = "checked")
    /\ pc = "loaded" =>
          \A k \in 1..Len(dp.data.rows) : \A c \in 1..Len(dp.data.cols) :
              dp.data.cols[c] \notin {DecDate, CometID} =>
                  LET field == The(csvFile).rows[dp.data.index[k] + 1][c]
                  IN  /\ dp.data.rows[k][c] \in Int
                      /\ dp.data.rows[k][c] = IF field[1] = "num" THEN field[2] ELSE 0

\* A table was loaded from a file with a number in one row and text in another
C12_LoadedTextAndNumber ==
    /\ pc = "loaded"
    /\ Len(dp.data.rows) = 2
    /\ The(csvFile).rows[1][3] = <<"txt", 0>>
    /\ The(csvFile).rows[2][3] = <<"num", 5>>
    /\ dp.data.rows[1][3] = 0
    /\ dp.data.rows[2][3] = 5

\* A field of the date column that encodes a date: YYYYMMDD.fraction with a
\* day part of eight digits naming a day of the calendar
ValidEncoded(field) ==
    /\ field[1] = "num"
    /\ LET w == field[2].whole
       IN  /\ w >= 10000000 /\ w <= 99999999
           /\ (w \div 100) % 100 \in 1..12
           /\ w % 100 \in 1..DaysInMonth(w \div 10000, (w \div 100) % 100)
    /\ field[2].frac \in 0..(FracDen - 1)

\* The date fields of the input file and the datetimes of the loaded table (no
\* filter: the rows are the rows of the file)
DateFields == [r \in 1..Len(The(csvFile).rows) |-> The(csvFile).rows[r][2]]
Decoded == [r \in 1..Len(dp.data.rows) |-> dp.data.rows[r][2]]

\* a <= b on encoded values and on datetimes
EncodedLeq(a, b) ==
    a[2].whole < b[2].whole \/ (a[2].whole = b[2].whole /\ a[2].frac <= b[2].frac)
DatetimeLeq(a, b) ==
    LET day(t) == (t.year * 12 + t.month) * 31 + t.day
    IN  \/ day(a) < day(b)
        \/ /\ day(a) = day(b)
           /\ \/ a.second < b.second
              \/ (a.second = b.second /\ a.microsecond <= b.microsecond)

\* The date part of every decoded value is the day the integer part names, and
\* decoding is monotonic
DateAndOrder ==
    /\ \A r \in 1..Len(Decoded) :
          LET w == DateFields[r][2].whole
          IN  /\ Decoded[r].year = w \div 10000
              /\ Decoded[r].month = (w \div 100) % 100
              /\ Decoded[r].day = w % 100
    /\ \A a, b \in 1..Len(Decoded) :
          EncodedLeq(DateFields[a], DateFields[b]) => DatetimeLeq(Decoded[a], Decoded[b])

AllValid == \A r \in 1..Len(DateFields) : ValidEncoded(DateFields[r])

\* C13 as stated: a file of valid encoded dates loads, each decoded value is the
\* day of the integer part plus an offset that is a whole number of seconds,
\* and decoding is monotonic.
C13_OffsetInWholeSeconds ==
    AllValid =>
        /\ pc # "failed"
        /\ pc = "loaded" =>
              /\ DateAndOrder
              /\ \A r \in 1..Len(Decoded) : Decoded[r].microsecond = 0

\* C13, amended: a file of valid encoded dates loads, each decoded value is the
\* day of the integer part plus fraction * 86400 seconds kept to the
\* microsecond (337.5 s for 1/256 of a day), and decoding is monotonic.
C13_OffsetToTheMicrosecond ==
    AllValid =>
        /\ pc # "failed"
        /\ pc = "loaded" =>
              /\ DateAndOrder
              /\ \A r \in 1..Len(Decoded) :
                    LET part == DateFields[r][2].frac * SecondsPerDay
                    IN  /\ Decoded[r].second = part \div FracDen
                        /\ Decoded[r].microsecond * FracDen = (part % FracDen) * 1000000

\* Two valid dates were decoded, the later one with half a second in its offset
C13_DecodedHalfSecond ==
    /\ pc = "loaded"
    /\ AllValid
    /\ Len(Decoded) = 2
    /\ DateFields[1][2] = [whole |-> 20231231, frac |-> 255]
    /\ DateFields[2][2] = [whole |-> 20240229, frac |-> 1]
    /\ Decoded[2] = [year |-> 2024, month |-> 2, day |-> 29,
                     second |-> 337, microsecond |-> 500000]

\* The rename directives of the run's configuration source
DirectivesGiven ==
    IF args.import_config THEN YamlGet(yamlFile, "column_names", <<>>)
    ELSE IF args.column_names = None THEN <<>> ELSE The(args.column_names)

\* A directive with exactly one separator, and its two sides, trimmed
Separators(item) == {k \in 1..Len(item) : item[k] = "="}
WellFormed(item) == Cardinality(Separators(item)) = 1
DisplaySide(item) == Strip(SubSeq(item, 1, (CHOOSE k \in Separators(item) : TRUE) - 1))
OriginalSide(item) ==
    Strip(SubSeq(item, (CHOOSE k \in Separators(item) : TRUE) + 1, Len(item)))

DefaultedFields ==
    {"delimiter", "output_format", "dpi", "font_size", "style", "interactive",
     "use_uncertainties"}

\* The run's configuration source sets none of them
OnlyRequiredGiven ==
    IF args.import_config THEN DOMAIN yamlFile \cap DefaultedFields = {}
    ELSE args = parse_args(DefaultsCmdline(Split(The(args.y_axes), ","), {},
                                           IF args.x_axis_title = None THEN "absent" ELSE "given",
                                           IF args.y_axis_title = None THEN "absent" ELSE "given"))

\* The configuration the other source builds from the same required fields
Counterpart ==
    IF args.import_config
    THEN GraphConfigFromArgs(parse_args(DefaultsCmdline(The(yamlFile.y_axes), {},
                                                        "absent", "absent"))).cfg
    ELSE GraphConfigFromYaml(DefaultsYaml(Split(The(args.y_axes), ","), {},
                                          "absent", "absent")).cfg

\* C15: a configuration built from a source that sets only the required fields
\* has the delimiter, output format, resolution, font size, style, interactive
\* flag and uncertainty flag that the other source gives for the same required
\* fields.
C15_SameDefaultsFromBothSources ==
    (config # Unset /\ OnlyRequiredGiven) =>
        \A k \in DefaultedFields : config[k] = Counterpart[k]

\* C16: when the source gives no X title (the option or key is absent, or the
\* key is null) the X title of the configuration is x_axis, and when it gives no
\* Y title the Y title is the Y-axis names joined with " / ".
C16_TitlesDefaultToAxisNames ==
    LET x_given == IF args.import_config
                   THEN YamlGet(yamlFile, "x_axis_title", None) # None
                   ELSE args.x_axis_title # None
        y_given == IF args.import_config
                   THEN YamlGet(yamlFile, "y_axis_title", None) # None
                   ELSE args.y_axis_title # None
    IN  config # Unset =>
            /\ ~x_given => config.x_axis_title = config.x_axis
            /\ ~y_given => config.y_axis_title = Some(Join(TitleSep, config.y_axes))

\* C17: no step taken after GraphConfig construction has returned changes a
\* field of the configuration, and no step of Graph.render changes the table
\* (column names, row values, row labels).
C17_ConfigAndTableReadOnly ==
    [][/\ config # Unset => config' = config
       /\ pc \in RenderPcs => dp' = dp]_vars

\* The axis selections as the configuration source gives them, and the
\* columns of the input file
XAxisGiven == IF args.import_config THEN YamlGet(yamlFile, "x_axis", None) ELSE args.x_axis
YAxesGiven ==
    IF args.import_config THEN The(YamlGet(yamlFile, "y_axes", Some(<<>>)))
    ELSE IF args.y_axes = None THEN <<>> ELSE Split(The(args.y_axes), ",")
Graphed == pc = "graph" \/ ReachedRender

\* C18: once the Graph is constructed, an x_axis that named a column of the
\* input file names a column of the renamed table, and so does every entry of
\* y_axes; the renderer's lookup of the X column does not raise KeyError.
C18_AxesFollowRenaming ==
    Graphed =>
        /\ (XAxisGiven # None /\ has_column(The(csvFile), The(XAxisGiven))) =>
              /\ has_column(dp.data, The(config.x_axis))
              /\ ~(pc = "failed" /\ failedAt \in {"static", "interactive"})
        /\ \A k \in 1..Len(YAxesGiven) :
              has_column(The(csvFile), YAxesGiven[k]) => has_column(dp.data, config.y_axes[k])

\* The row of the loaded table a plotted point comes from (the X values of a
\* table are distinct), and the place of an identifier among the filter keys
RowOfX(x) == CHOOSE r \in 1..Len(dp.data.rows) : dp.data.rows[r][Col(dp.data, T)] = x
SeriesOf(id) == CHOOSE n \in 1..Len(The(dp.comet_ids)) : The(dp.comet_ids)[n] = id

\* C19: with a "delta T" column, every point the static renderer scatters is
\* drawn after the delta T of its own row: filled, in the colour and the shape
\* configured for its series, when that delta T is >= 0, and hollow (face
\* "none", edge in the series colour) when it is < 0.
C19_MarkerFromOwnDeltaT ==
    (dp # Unset /\ config # Unset /\ ~config.interactive /\ has_column(dp.data, DeltaT)) =>
        \A c \in 1..Len(calls) :
            calls[c].fn = "scatter" =>
                LET row == dp.data.rows[RowOfX(calls[c].x[1])]
                    n == SeriesOf(row[Col(dp.data, CometID)])
                IN  IF row[Col(dp.data, DeltaT)] >= 0
                    THEN /\ calls[c].color = Cyclic(config.colors, n - 1)
                         /\ calls[c].edge = None
                         /\ calls[c].marker = Cyclic(config.shapes, n - 1)
                    ELSE /\ calls[c].color = Hollow
                         /\ calls[c].edge = Some(Cyclic(config.colors, n - 1))

\* The (X, Y) points of the marker calls among some drawing calls
PointsOf(drawn) ==
    UNION { {<<drawn[c].x[k], drawn[c].y[k]>> : k \in 1..Len(drawn[c].x)} :
              c \in {c \in 1..Len(drawn) : drawn[c].fn \in {"scatter", "markers"}} }

\* The points the static renderer scatters for the table and the configuration
\* of the run, one series per Y axis and filter key
StaticPoints ==
    LET cfg == [config EXCEPT !.interactive = FALSE, !.use_uncertainties = FALSE]
    IN  UNION { PointsOf(render_static_series(cfg, dp.data, The(dp.comet_ids), a, n).calls) :
                  a \in 1..Len(config.y_axes), n \in 1..Len(The(dp.comet_ids)) }

C21_PaletteCyclesAndNeverFails ==
    (/\ config # Unset /\ ~config.interactive
     /\ dp # Unset /\ dp.comet_ids # None /\ ~has_column(dp.data, DeltaT)) =>
        /\ ~(pc = "failed" /\ failedAt = "series" /\ err = "ZeroDivisionError")
        /\ \A c \in 1..Len(calls) :
              calls[c].fn = "scatter" =>
                  LET n == SeriesOf(calls[c].label)
                  IN  /\ calls[c].color = Cyclic(config.colors, n - 1)
                      /\ calls[c].marker = Cyclic(config.shapes, n - 1)
        /\ pc = "done" => Len(calls) = Len(config.y_axes) * Len(The(dp.comet_ids))

====
